---- MODULE Spec2Model ----
(***************************************************************************)
(* A model of AudioRecorder (main.py) with the settings of config.py.      *)
(* One run of record() is modelled, ended by at most one KeyboardInterrupt *)
(* or by an exception.                                                     *)
(*                                                                         *)
(* The program counter pc holds the line of main.py that runs next, so a   *)
(* KeyboardInterrupt, which Python raises between any two statements of    *)
(* the main thread, can be delivered at every statement of record() and of *)
(* save_recording().  A frame is the index of the stream.read() call that  *)
(* returned it; speech[f] is the verdict the classifier gave frame f.      *)
(***************************************************************************)
EXTENDS Integers, Sequences, FiniteSets, TLC

VARIABLES
    cfg,                            \* the settings of config.py
    silence_threshold,              \* self.silence_threshold
    trailing_silence_frames,        \* self.trailing_silence_frames
    recording,                      \* self.recording
    buffer,                         \* self.buffer
    silence_counter,                \* self.silence_counter
    speech_frame_counter,           \* self.speech_frame_counter
    speech_pre_buffer,              \* self.speech_pre_buffer
    speech_detected_in_recording,   \* self.speech_detected_in_recording
    pc,                             \* line of main.py that runs next; 0 = record() has ended
    ret,                            \* line save_recording returns to
    audio,                          \* the PyAudio handle of record()
    stream,                         \* the stream of record()
    frame,                          \* local frame of record()
    is_speech,                      \* local is_speech of record()
    filename,                       \* local filename of save_recording()
    audio_data,                     \* local audio_data of save_recording()
    network_files,                  \* files under config.NETWORK_PATH: name -> content
    backup_files,                   \* files under config.BACKUP_PATH: name -> content
    now,                            \* the last datetime.now() read, in seconds
    script,                         \* verdicts the stream is scripted to produce (<<>>: any)
    error,                          \* the exception that is propagating, and the line that raised it
    outcome,                        \* "running", "returned" or "raised"
    nread,                          \* history: number of frames read
    speech,                         \* history: verdict of each classified frame
    vad_raised,                     \* history: the classifier raised at line 104 (until line 127)
    onset,                          \* history: pre-buffer and frame at the last confirmation
    saves,                          \* history: one record per call of save_recording
    caught                          \* history: the recorder when line 144 caught the interrupt

vars == <<cfg, silence_threshold, trailing_silence_frames, recording, buffer,
          silence_counter, speech_frame_counter, speech_pre_buffer,
          speech_detected_in_recording, pc, ret, audio, stream, frame, is_speech,
          filename, audio_data, network_files, backup_files, now, script,
          error, outcome, nread, speech, vad_raised, onset, saves, caught>>

recorder == <<recording, buffer, silence_counter, speech_frame_counter,
              speech_pre_buffer, speech_detected_in_recording>>
settings == <<cfg, silence_threshold, trailing_silence_frames, script>>
files    == <<network_files, backup_files>>
locals   == <<frame, is_speech>>
savevars == <<filename, audio_data>>
handles  == <<audio, stream>>
history  == <<nread, speech, vad_raised, onset, saves, caught>>

----------------------------------------------------------------------------
(* Bounds of the exploration.                                              *)

MaxFrames == 4          \* frames read from an unscripted stream
MaxSpeechFrames == 2    \* largest MINIMUM_CONSECUTIVE_SPEECH_FRAMES explored
MaxSilenceFrames == 2   \* largest silence threshold explored, in frames
MaxTrailingFrames == 1  \* largest trailing silence kept explored, in frames
MaxClock == 1           \* seconds the clock can advance

----------------------------------------------------------------------------
(* config.py.  Durations are in milliseconds, so that the fractional       *)
(* TRAILING_SILENCE_TO_KEEP = 0.1 s is the integer 100.                    *)

FRAME_DURATION == 30
SILENCE_DURATION_BEFORE_SAVE == 3000
TRAILING_SILENCE_TO_KEEP == 100
MINIMUM_CONSECUTIVE_SPEECH_FRAMES == 7

FileConfig ==
    [OUTPUT_FORMAT |-> "flac",
     FRAME_DURATION |-> FRAME_DURATION,
     SILENCE_DURATION_BEFORE_SAVE |-> SILENCE_DURATION_BEFORE_SAVE,
     TRAILING_SILENCE_TO_KEEP |-> TRAILING_SILENCE_TO_KEEP,
     MINIMUM_CONSECUTIVE_SPEECH_FRAMES |-> MINIMUM_CONSECUTIVE_SPEECH_FRAMES]

\* Settings with short thresholds, and both output formats.
SmallConfigs ==
    [OUTPUT_FORMAT : {"flac", "wav"},
     FRAME_DURATION : {FRAME_DURATION},
     SILENCE_DURATION_BEFORE_SAVE : {k * FRAME_DURATION : k \in 1..MaxSilenceFrames},
     TRAILING_SILENCE_TO_KEEP : {k * FRAME_DURATION + 10 : k \in 0..MaxTrailingFrames},
     MINIMUM_CONSECUTIVE_SPEECH_FRAMES : 1..MaxSpeechFrames]

\* int(x / y) of __init__, for x, y >= 0
FramesIn(duration, frame_duration) == duration \div frame_duration

Repeat(v, n) == [i \in 1..n |-> v]

\* The two scenarios of the file's settings: an utterance closed by silence,
\* and two speech runs that are each too short.
Scripts ==
    { Repeat(TRUE, MINIMUM_CONSECUTIVE_SPEECH_FRAMES)
        \o Repeat(FALSE, FramesIn(SILENCE_DURATION_BEFORE_SAVE, FRAME_DURATION)),
      Repeat(TRUE, MINIMUM_CONSECUTIVE_SPEECH_FRAMES - 1) \o <<FALSE>>
        \o Repeat(TRUE, MINIMUM_CONSECUTIVE_SPEECH_FRAMES - 1) }

----------------------------------------------------------------------------
(* Pure helpers.                                                           *)

Last(s) == s[Len(s)]

\* s[:-n] for n >= 1
DropTail(s, n) == SubSeq(s, 1, IF Len(s) > n THEN Len(s) - n ELSE 0)

\* lines 162-164: the buffer after the trim step
Trim(buf, counter, keep) ==
    IF counter > keep THEN DropTail(buf, counter - keep) ELSE buf

\* lines 198-206: wave.open(filepath, 'wb') truncates an existing file
save_to_wave_file(dir, path, data, permitted) ==
    IF permitted
    THEN [ok |-> TRUE, files |-> [p \in DOMAIN dir \cup {path} |->
                                    IF p = path THEN data ELSE dir[p]]]
    ELSE [ok |-> FALSE, files |-> dir]

\* lines 208-216: sf.SoundFile(filepath, mode='x') fails on an existing file
save_to_flac_file(dir, path, data, permitted) ==
    IF permitted /\ path \notin DOMAIN dir
    THEN [ok |-> TRUE, files |-> [p \in DOMAIN dir \cup {path} |->
                                    IF p = path THEN data ELSE dir[p]]]
    ELSE [ok |-> FALSE, files |-> dir]

\* lines 189-196
write_audio_file(format, dir, path, data, permitted) ==
    IF format = "wav"
    THEN save_to_wave_file(dir, path, data, permitted)
    ELSE save_to_flac_file(dir, path, data, permitted)

----------------------------------------------------------------------------
(* __init__                                                                *)

NoError == [type |-> "none", line |-> 0]

InitWith(configs, scripts) ==
    /\ cfg \in configs
    /\ script \in scripts
    /\ silence_threshold = FramesIn(cfg.SILENCE_DURATION_BEFORE_SAVE, cfg.FRAME_DURATION)
    /\ trailing_silence_frames = FramesIn(cfg.TRAILING_SILENCE_TO_KEEP, cfg.FRAME_DURATION)
    /\ recording = FALSE
    /\ buffer = <<>>
    /\ silence_counter = 0
    /\ speech_frame_counter = 0
    /\ speech_pre_buffer = <<>>
    /\ speech_detected_in_recording = FALSE
    /\ pc = 77
    /\ ret = 0
    /\ audio = "none"
    /\ stream = "none"
    /\ frame = 0
    /\ is_speech = FALSE
    /\ filename = 0
    /\ audio_data = <<>>
    /\ network_files = <<>>
    /\ backup_files = <<>>
    /\ now = 0
    /\ error = NoError
    /\ outcome = "running"
    /\ nread = 0
    /\ speech = <<>>
    /\ vad_raised = FALSE
    /\ onset = [pre |-> <<>>, frame |-> 0]
    /\ saves = <<>>
    /\ caught = [at |-> 0]

Init == InitWith(SmallConfigs, {<<>>})

InitScenario == InitWith({FileConfig}, Scripts)

----------------------------------------------------------------------------
(* record(): acquiring the device, lines 77-96                             *)

\* line 77
CreateAudio ==
    /\ pc = 77
    /\ audio' = "open"
    /\ pc' = 79
    /\ UNCHANGED <<settings, recorder, ret, stream, locals, savevars, files, now,
                   error, outcome, history>>

\* lines 78-79: a device named "snowball" is found
FindDevice ==
    /\ pc = 79
    /\ pc' = 84
    /\ UNCHANGED <<settings, recorder, ret, handles, locals, savevars, files, now,
                   error, outcome, history>>

\* lines 79-82, with the raise of line 69
DeviceNotFound ==
    /\ pc = 79
    /\ audio' = "terminated"
    /\ pc' = 0
    /\ error' = [type |-> "Exception", line |-> 69]
    /\ outcome' = "raised"
    /\ UNCHANGED <<settings, recorder, ret, stream, locals, savevars, files, now,
                   history>>

\* lines 84-96
OpenStream ==
    /\ pc = 84
    /\ stream' = "open"
    /\ speech_frame_counter' = 0
    /\ speech_pre_buffer' = <<>>
    /\ pc' = 100
    /\ UNCHANGED <<settings, recording, buffer, silence_counter,
                   speech_detected_in_recording, ret, audio, locals, savevars,
                   files, now, error, outcome, history>>

\* line 84: audio.open raises, outside every try block
OpenStreamFails ==
    /\ pc = 84
    /\ pc' = 0
    /\ error' = [type |-> "OSError", line |-> 84]
    /\ outcome' = "raised"
    /\ UNCHANGED <<settings, recorder, ret, handles, locals, savevars, files, now,
                   history>>

----------------------------------------------------------------------------
(* record(): one frame, lines 100-142                                      *)

LoopLines == {100, 102, 109, 110, 111, 114, 119, 120, 121, 124,
              127, 129, 132, 133, 139, 140, 141, 142}
SaveLines == {158, 162, 167, 173, 177, 182}

\* The stream has another frame to give.
HasFrame == nread < (IF script = <<>> THEN MaxFrames ELSE Len(script))

\* What webrtcvad can say of the frame just read: anything when unscripted.
FrameVerdicts == IF script = <<>> THEN BOOLEAN ELSE {script[nread]}

\* line 100
ReadFrame ==
    /\ pc = 100
    /\ HasFrame
    /\ nread' = nread + 1
    /\ frame' = nread + 1
    /\ vad_raised' = FALSE
    /\ pc' = 102
    /\ UNCHANGED <<settings, recorder, ret, handles, is_speech, savevars, files, now,
                   error, outcome, speech, onset, saves, caught>>

\* line 100: stream.read raises; only KeyboardInterrupt is caught
ReadFails ==
    /\ pc = 100
    /\ error' = [type |-> "OSError", line |-> 100]
    /\ pc' = 149
    /\ UNCHANGED <<settings, recorder, ret, handles, locals, savevars, files, now,
                   outcome, history>>

\* the confirmation one frame early
AfterPreBufferEarly(rec, counter) ==
    IF ~rec /\ counter >= cfg.MINIMUM_CONSECUTIVE_SPEECH_FRAMES - 1 THEN 119
    ELSE IF rec THEN 124 ELSE 100

\* lines 117 and 123: where line 114 leads
AfterPreBuffer(rec, counter) ==
    IF ~rec /\ counter >= cfg.MINIMUM_CONSECUTIVE_SPEECH_FRAMES THEN 119
    ELSE IF rec THEN 124 ELSE 100

\* a frame on which the classifier raised counts as speech
VerdictRaisedAsSpeech(answer, raised) == IF raised THEN TRUE ELSE answer

\* lines 102-106: is_speech stays False when vad.is_speech raises
Verdict(answer, raised) == IF raised THEN FALSE ELSE answer

\* lines 102-108: the classifier answers, or raises and the frame counts as
\* non-speech
Classify ==
    /\ pc = 102
    /\ \E v \in FrameVerdicts :
          \E raised \in (IF v THEN {FALSE} ELSE BOOLEAN) :
             /\ is_speech' = Verdict(v, raised)
             /\ vad_raised' = raised
             /\ speech' = Append(speech, is_speech')
             /\ pc' = IF is_speech' THEN 109 ELSE 127
    /\ UNCHANGED <<settings, recorder, ret, handles, frame, savevars, files, now,
                   error, outcome, nread, onset, saves, caught>>

----------------------------------------------------------------------------
(* record(): a speech frame, lines 109-124                                 *)

\* the flag is raised only on speech heard during a recording
SetSpeechDetectedWhileRecording ==
    /\ pc = 109
    /\ speech_detected_in_recording' = recording
    /\ pc' = 110
    /\ UNCHANGED <<settings, recording, buffer, silence_counter, speech_frame_counter,
                   speech_pre_buffer, ret, handles, locals, savevars, files, now,
                   error, outcome, history>>

\* line 109
SetSpeechDetected ==
    /\ pc = 109
    /\ speech_detected_in_recording' = TRUE
    /\ pc' = 110
    /\ UNCHANGED <<settings, recording, buffer, silence_counter, speech_frame_counter,
                   speech_pre_buffer, ret, handles, locals, savevars, files, now,
                   error, outcome, history>>

\* line 110
ResetSilenceCounter ==
    /\ pc = 110
    /\ silence_counter' = 0
    /\ pc' = 111
    /\ UNCHANGED <<settings, recording, buffer, speech_frame_counter,
                   speech_pre_buffer, speech_detected_in_recording, ret, handles,
                   locals, savevars, files, now, error, outcome, history>>

\* line 111
CountSpeechFrame ==
    /\ pc = 111
    /\ speech_frame_counter' = speech_frame_counter + 1
    /\ pc' = 114
    /\ UNCHANGED <<settings, recording, buffer, silence_counter, speech_pre_buffer,
                   speech_detected_in_recording, ret, handles, locals, savevars,
                   files, now, error, outcome, history>>

\* line 114, then the tests of lines 117 and 123
AppendPreBuffer ==
    /\ pc = 114
    /\ speech_pre_buffer' = Append(speech_pre_buffer, frame)
    /\ pc' = AfterPreBuffer(recording, speech_frame_counter)
    /\ UNCHANGED <<settings, recording, buffer, silence_counter, speech_frame_counter,
                   speech_detected_in_recording, ret, handles, locals, savevars,
                   files, now, error, outcome, history>>

\* lines 118-119
StartRecording ==
    /\ pc = 119
    /\ recording' = TRUE
    /\ onset' = [pre |-> speech_pre_buffer, frame |-> frame]
    /\ pc' = 120
    /\ UNCHANGED <<settings, buffer, silence_counter, speech_frame_counter,
                   speech_pre_buffer, speech_detected_in_recording, ret, handles,
                   locals, savevars, files, now, error, outcome, nread, speech,
                   vad_raised, saves, caught>>

\* line 120
SeedBuffer ==
    /\ pc = 120
    /\ buffer' = speech_pre_buffer
    /\ pc' = 121
    /\ UNCHANGED <<settings, recording, silence_counter, speech_frame_counter,
                   speech_pre_buffer, speech_detected_in_recording, ret, handles,
                   locals, savevars, files, now, error, outcome, history>>

\* line 121, then the test of line 123
ClearPreBuffer ==
    /\ pc = 121
    /\ speech_pre_buffer' = <<>>
    /\ pc' = IF recording THEN 124 ELSE 100
    /\ UNCHANGED <<settings, recording, buffer, silence_counter, speech_frame_counter,
                   speech_detected_in_recording, ret, handles, locals, savevars,
                   files, now, error, outcome, history>>

\* line 124
AppendSpeechFrame ==
    /\ pc = 124
    /\ buffer' = Append(buffer, frame)
    /\ pc' = 100
    /\ UNCHANGED <<settings, recording, silence_counter, speech_frame_counter,
                   speech_pre_buffer, speech_detected_in_recording, ret, handles,
                   locals, savevars, files, now, error, outcome, history>>

----------------------------------------------------------------------------
(* record(): a non-speech frame, lines 127-142                             *)

\* line 127, then the tests of lines 128 and 131
ResetSpeechCounter ==
    /\ pc = 127
    /\ speech_frame_counter' = 0
    /\ vad_raised' = FALSE
    /\ pc' = IF ~recording THEN 129 ELSE 132
    /\ UNCHANGED <<settings, recording, buffer, silence_counter, speech_pre_buffer,
                   speech_detected_in_recording, ret, handles, locals, savevars,
                   files, now, error, outcome, nread, speech, onset, saves, caught>>

\* the partial run is kept
DiscardPreBufferKept ==
    /\ pc = 129
    /\ pc' = IF recording THEN 132 ELSE 100
    /\ UNCHANGED <<settings, recorder, ret, handles, locals, savevars, files, now,
                   error, outcome, history>>

\* line 129, then the test of line 131
DiscardPreBuffer ==
    /\ pc = 129
    /\ speech_pre_buffer' = <<>>
    /\ pc' = IF recording THEN 132 ELSE 100
    /\ UNCHANGED <<settings, recording, buffer, silence_counter, speech_frame_counter,
                   speech_detected_in_recording, ret, handles, locals, savevars,
                   files, now, error, outcome, history>>

\* line 132
CountSilenceFrame ==
    /\ pc = 132
    /\ silence_counter' = silence_counter + 1
    /\ pc' = 133
    /\ UNCHANGED <<settings, recording, buffer, speech_frame_counter,
                   speech_pre_buffer, speech_detected_in_recording, ret, handles,
                   locals, savevars, files, now, error, outcome, history>>

\* the segment closes one frame after the threshold
AfterSilenceFrameLate(counter, threshold, detected) ==
    IF counter > threshold THEN (IF detected THEN 158 ELSE 139) ELSE 100

\* lines 136-138: where line 133 leads; 158 is the call of save_recording
AfterSilenceFrame(counter, threshold, detected) ==
    IF counter >= threshold THEN (IF detected THEN 158 ELSE 139) ELSE 100

\* line 133, then the tests of lines 136-137 and the call of line 138
AppendSilenceFrame ==
    /\ pc = 133
    /\ buffer' = Append(buffer, frame)
    /\ pc' = AfterSilenceFrame(silence_counter, silence_threshold,
                               speech_detected_in_recording)
    /\ ret' = IF pc' = 158 THEN 139 ELSE ret
    /\ UNCHANGED <<settings, recording, silence_counter, speech_frame_counter,
                   speech_pre_buffer, speech_detected_in_recording, handles, locals,
                   savevars, files, now, error, outcome, history>>

\* line 139
StopRecording ==
    /\ pc = 139
    /\ recording' = FALSE
    /\ pc' = 140
    /\ UNCHANGED <<settings, buffer, silence_counter, speech_frame_counter,
                   speech_pre_buffer, speech_detected_in_recording, ret, handles,
                   locals, savevars, files, now, error, outcome, history>>

\* line 140
ClearBuffer ==
    /\ pc = 140
    /\ buffer' = <<>>
    /\ pc' = 141
    /\ UNCHANGED <<settings, recording, silence_counter, speech_frame_counter,
                   speech_pre_buffer, speech_detected_in_recording, ret, handles,
                   locals, savevars, files, now, error, outcome, history>>

\* line 141
ClearSilenceCounter ==
    /\ pc = 141
    /\ silence_counter' = 0
    /\ pc' = 142
    /\ UNCHANGED <<settings, recording, buffer, speech_frame_counter,
                   speech_pre_buffer, speech_detected_in_recording, ret, handles,
                   locals, savevars, files, now, error, outcome, history>>

\* line 142
ClearSpeechDetected ==
    /\ pc = 142
    /\ speech_detected_in_recording' = FALSE
    /\ pc' = 100
    /\ UNCHANGED <<settings, recording, buffer, silence_counter, speech_frame_counter,
                   speech_pre_buffer, ret, handles, locals, savevars, files, now,
                   error, outcome, history>>

----------------------------------------------------------------------------
(* save_recording(), lines 153-187                                         *)

Caller == IF ret = 139 THEN "loop" ELSE "interrupt"

\* The history record of the call in progress, updated.
Noted(field, value) == [saves EXCEPT ![Len(saves)][field] = value]

\* line 158
EnterSave ==
    /\ pc = 158
    /\ saves' = Append(saves,
          [caller |-> Caller, buffer |-> buffer, counter |-> silence_counter,
           stream |-> stream, audio |-> audio, exists |-> "unchecked",
           attempts |-> <<>>, data |-> <<>>, name |-> 0, before |-> files,
           onset |-> onset.frame,
           ended |-> IF Len(buffer) <= 1 THEN "returned" ELSE "running"])
    /\ pc' = IF Len(buffer) <= 1 THEN ret ELSE 162
    /\ UNCHANGED <<settings, recorder, ret, handles, locals, savevars, files, now,
                   error, outcome, nread, speech, vad_raised, onset, caught>>

\* lines 162-164
TrimBuffer ==
    /\ pc = 162
    /\ buffer' = Trim(buffer, silence_counter, trailing_silence_frames)
    /\ pc' = 167
    /\ UNCHANGED <<settings, recording, silence_counter, speech_frame_counter,
                   speech_pre_buffer, speech_detected_in_recording, ret, handles,
                   locals, savevars, files, now, error, outcome, history>>

\* lines 167-171: the name has the second datetime.now() returns, which is no
\* earlier than the last one read; the data are the frames joined
BuildFile ==
    /\ pc = 167
    /\ \E second \in now..MaxClock :
          /\ now' = second
          /\ filename' = second
          /\ saves' = Noted("name", second)
    /\ audio_data' = buffer
    /\ pc' = 173
    /\ UNCHANGED <<settings, recorder, ret, handles, locals, files, error,
                   outcome, nread, speech, vad_raised, onset, caught>>

\* line 168: building the sample array raises (MemoryError); no except clause of
\* save_recording or record() catches it, so the finally block of record() runs
SaveFails ==
    /\ pc = 167
    /\ error' = [type |-> "MemoryError", line |-> 168]
    /\ saves' = Noted("ended", "raised")
    /\ pc' = 149
    /\ UNCHANGED <<settings, recorder, ret, handles, locals, savevars, files, now,
                   outcome, nread, speech, vad_raised, onset, caught>>

\* the write is attempted whatever line 173 found
AfterExistsCheckIgnored(exists) == 177

\* lines 173-176: the raise of line 174 is caught at line 181
AfterExistsCheck(exists) == IF exists THEN 177 ELSE 182

\* line 173: os.path.exists(self.network_path), answered by the environment
CheckNetworkPath ==
    /\ pc = 173
    /\ \E exists \in BOOLEAN :
          /\ saves' = Noted("exists", IF exists THEN "yes" ELSE "no")
          /\ pc' = AfterExistsCheck(exists)
    /\ UNCHANGED <<settings, recorder, ret, handles, locals, savevars, files, now,
                   error, outcome, nread, speech, vad_raised, onset, caught>>

\* the fallback write follows a primary write that succeeded
AfterNetworkWriteBoth(ok, return) == 182

\* lines 177-181: where the primary write leads
AfterNetworkWrite(ok, return) == IF ok THEN return ELSE 182

\* lines 177-178; the environment may refuse the write
WriteNetwork ==
    /\ pc = 177
    /\ \E permitted \in BOOLEAN :
          LET w == write_audio_file(cfg.OUTPUT_FORMAT, network_files, filename,
                                    audio_data, permitted)
              after == AfterNetworkWrite(w.ok, ret)
          IN  /\ network_files' = w.files
              /\ saves' = [saves EXCEPT
                    ![Len(saves)].attempts = Append(@, [dir |-> "network", ok |-> w.ok]),
                    ![Len(saves)].data = audio_data,
                    ![Len(saves)].ended = IF after = ret THEN "returned" ELSE @]
              /\ pc' = after
    /\ UNCHANGED <<settings, recorder, ret, handles, locals, savevars, backup_files,
                   now, error, outcome, nread, speech, vad_raised, onset, caught>>

\* a failure of the fallback write propagates out of save_recording
WriteBackupRaising ==
    /\ pc = 182
    /\ \E permitted \in BOOLEAN :
          LET w == write_audio_file(cfg.OUTPUT_FORMAT, backup_files, filename,
                                    audio_data, permitted)
          IN  /\ backup_files' = w.files
              /\ saves' = [saves EXCEPT
                    ![Len(saves)].attempts = Append(@, [dir |-> "backup", ok |-> w.ok]),
                    ![Len(saves)].data = audio_data,
                    ![Len(saves)].ended = IF w.ok THEN "returned" ELSE "raised"]
              /\ pc' = IF w.ok THEN ret ELSE 149
              /\ error' = IF w.ok THEN error ELSE [type |-> "OSError", line |-> 184]
    /\ UNCHANGED <<settings, recorder, ret, handles, locals, savevars, network_files,
                   now, outcome, nread, speech, vad_raised, onset, caught>>

\* lines 182-187; a failure is printed, not raised
WriteBackup ==
    /\ pc = 182
    /\ \E permitted \in BOOLEAN :
          LET w == write_audio_file(cfg.OUTPUT_FORMAT, backup_files, filename,
                                    audio_data, permitted)
          IN  /\ backup_files' = w.files
              /\ saves' = [saves EXCEPT
                    ![Len(saves)].attempts = Append(@, [dir |-> "backup", ok |-> w.ok]),
                    ![Len(saves)].data = audio_data,
                    ![Len(saves)].ended = "returned"]
    /\ pc' = ret
    /\ UNCHANGED <<settings, recorder, ret, handles, locals, savevars, network_files,
                   now, error, outcome, nread, speech, vad_raised, onset, caught>>

----------------------------------------------------------------------------
(* record(): the interrupt handler and the finally block, lines 144-151    *)

\* the handler does not look at self.recording
AfterInterruptAnyState(rec, buf, detected) ==
    IF buf # <<>> /\ detected THEN 158 ELSE 149

\* line 146: 158 is the call of line 147
AfterInterrupt(rec, buf, detected) ==
    IF rec /\ buf # <<>> /\ detected THEN 158 ELSE 149

\* lines 144-147
HandleInterrupt ==
    /\ pc = 146
    /\ pc' = AfterInterrupt(recording, buffer, speech_detected_in_recording)
    /\ ret' = IF pc' = 158 THEN 149 ELSE ret
    /\ UNCHANGED <<settings, recorder, handles, locals, savevars, files, now,
                   error, outcome, history>>

\* line 149
StopStream ==
    /\ pc = 149
    /\ stream' = "stopped"
    /\ pc' = 150
    /\ UNCHANGED <<settings, recorder, ret, audio, locals, savevars, files, now,
                   error, outcome, history>>

\* line 150
CloseStream ==
    /\ pc = 150
    /\ stream' = "closed"
    /\ pc' = 151
    /\ UNCHANGED <<settings, recorder, ret, audio, locals, savevars, files, now,
                   error, outcome, history>>

\* line 151, then record() returns or the exception propagates
TerminateAudio ==
    /\ pc = 151
    /\ audio' = "terminated"
    /\ pc' = 0
    /\ outcome' = IF error = NoError THEN "returned" ELSE "raised"
    /\ UNCHANGED <<settings, recorder, ret, stream, locals, savevars, files, now,
                   error, history>>

----------------------------------------------------------------------------
(* KeyboardInterrupt, delivered between two statements.                    *)

InSave(return) == pc \in SaveLines /\ ret = return

\* The call of save_recording in progress, if any, is abandoned.
Abandoned ==
    IF pc \in SaveLines /\ pc # 158
    THEN Noted("ended", "interrupted")
    ELSE saves

\* lines 77-96 are in no try block that catches it
InterruptBeforeTry ==
    /\ pc \in {77, 79, 84}
    /\ pc' = 0
    /\ error' = [type |-> "KeyboardInterrupt", line |-> pc]
    /\ outcome' = "raised"
    /\ UNCHANGED <<settings, recorder, ret, handles, locals, savevars, files, now,
                   history>>

\* lines 98-142, and save_recording when line 138 called it: caught at line 144
InterruptInLoop ==
    /\ pc \in LoopLines \/ InSave(139)
    /\ pc' = 146
    /\ saves' = Abandoned
    /\ caught' = [at |-> pc, recording |-> recording, buffer |-> buffer,
                  detected |-> speech_detected_in_recording,
                  counter |-> silence_counter, saves |-> Len(saves),
                  files |-> files]
    /\ UNCHANGED <<settings, recorder, ret, handles, locals, savevars, files, now,
                   error, outcome, nread, speech, vad_raised, onset>>

----------------------------------------------------------------------------

Next ==
    \/ CreateAudio \/ FindDevice \/ DeviceNotFound \/ OpenStream \/ OpenStreamFails
    \/ ReadFrame \/ ReadFails \/ Classify
    \/ SetSpeechDetected \/ ResetSilenceCounter \/ CountSpeechFrame
    \/ AppendPreBuffer \/ StartRecording \/ SeedBuffer \/ ClearPreBuffer
    \/ AppendSpeechFrame
    \/ ResetSpeechCounter \/ DiscardPreBuffer \/ CountSilenceFrame
    \/ AppendSilenceFrame \/ StopRecording \/ ClearBuffer \/ ClearSilenceCounter
    \/ ClearSpeechDetected
    \/ EnterSave \/ TrimBuffer \/ BuildFile \/ CheckNetworkPath \/ WriteNetwork
    \/ WriteBackup \/ SaveFails
    \/ HandleInterrupt \/ StopStream \/ CloseStream \/ TerminateAudio
    \/ InterruptBeforeTry \/ InterruptInLoop

Spec == Init /\ [][Next]_vars

SpecScenario == InitScenario /\ [][Next]_vars

TypeOK ==
    /\ recording \in BOOLEAN
    /\ pc \in LoopLines \cup SaveLines \cup {0, 77, 79, 84, 146, 149, 150, 151, 162}
    /\ outcome \in {"running", "returned", "raised"}

----------------------------------------------------------------------------
(* Properties.                                                             *)

\* s has n consecutive speech verdicts
HasRun(s, n) ==
    \E i \in 1..(Len(s) - n + 1) : \A j \in i..(i + n - 1) : s[j]

\* the frames first..last in read order
FramesFrom(first, last) == [i \in 1..(last - first + 1) |-> first + i - 1]

RECURSIVE TrailingSilence(_)
\* number of non-speech frames at the end of a frame list
TrailingSilence(s) ==
    IF s = <<>> \/ speech[Last(s)] THEN 0
    ELSE 1 + TrailingSilence(SubSeq(s, 1, Len(s) - 1))

IsPrefix(s, t) == Len(s) <= Len(t) /\ s = SubSeq(t, 1, Len(s))

\* the loop is at the call of line 138
LoopCallsSave == pc = 158 /\ ret = 139

\* the calls of save_recording that handed data to a writer
Written == {i \in 1..Len(saves) : saves[i].attempts # <<>>}

C2_BufferIsPreBufferThenFrames ==
    LoopCallsSave => buffer = onset.pre \o FramesFrom(onset.frame + 1, frame)

\* C3: with the settings of config.py, 7 speech frames and 100 non-speech
\* frames give one call of save_recording, with a buffer of 107 frames.
C3_OneSegmentOf107Frames ==
    (script = Repeat(TRUE, 7) \o Repeat(FALSE, 100) /\ nread = 107 /\ pc = 100)
        => Len(saves) = 1 /\ Len(saves[1].buffer) = 107

\* C4: every segment written ends with at most trailing_silence_frames
\* non-speech frames; when the silence run at the call is longer, exactly
\* trailing_silence_frames of it are kept and only the tail was removed.
C4_TrailingSilenceKept ==
    \A i \in Written :
        /\ TrailingSilence(saves[i].data) <= trailing_silence_frames
        /\ IsPrefix(saves[i].data, saves[i].buffer)
        /\ TrailingSilence(saves[i].buffer) > trailing_silence_frames
              => TrailingSilence(saves[i].data) = trailing_silence_frames

\* C5: the trim step applied again to the buffer and silence_counter a first
\* trim left removes no frame.
C5_TrimIdempotent ==
    pc = 167 => Trim(buffer, silence_counter, trailing_silence_frames) = buffer

\* the calls of save_recording the interrupt handler made
InterruptSaves == {i \in 1..Len(saves) : saves[i].caller = "interrupt"}

\* the handler of lines 144-147 has run to its end
HandlerDone ==
    /\ caught.at # 0
    /\ pc \in {0, 149, 150, 151}

\* C6: a call of save_recording that finds the primary directory missing
\* attempts no write under the primary path and changes nothing there; when its
\* fallback write succeeds the segment's file is under the fallback path.
C6_FallbackOnly ==
    \A i \in 1..Len(saves) :
        saves[i].exists = "no" =>
            /\ \A k \in 1..Len(saves[i].attempts) : saves[i].attempts[k].dir = "backup"
            /\ i = Len(saves) => network_files = saves[i].before[1]
            /\ (i = Len(saves) /\ saves[i].attempts # <<>> /\ Last(saves[i].attempts).ok)
                  => /\ saves[i].name \in DOMAIN backup_files
                     /\ backup_files[saves[i].name] = saves[i].data

\* C6 witness: the directory was missing and the fallback write succeeded.
C6_Witness ==
    /\ saves # <<>>
    /\ Last(saves).exists = "no"
    /\ Last(saves).attempts = <<[dir |-> "backup", ok |-> TRUE]>>
    /\ Last(saves).ended = "returned"

\* C7: in every call of save_recording the primary write comes first, the
\* fallback write is attempted exactly when the primary attempt failed (missing
\* directory or failed write), and a successful primary write leaves the
\* fallback path untouched: at most one write of a call succeeds.
C7_PrimaryThenFallback ==
    \A i \in 1..Len(saves) :
        LET a == saves[i].attempts
            primaryOk == a # <<>> /\ a[1] = [dir |-> "network", ok |-> TRUE]
        IN  /\ \A k \in 1..Len(a) :
                  /\ a[k].dir = "network" => k = 1 /\ saves[i].exists = "yes"
                  /\ a[k].dir = "backup" =>
                        \/ k = 1 /\ saves[i].exists = "no"
                        \/ k = 2 /\ a[1] = [dir |-> "network", ok |-> FALSE]
            /\ (saves[i].ended = "returned" /\ saves[i].exists # "unchecked")
                  => (primaryOk <=> \A k \in 1..Len(a) : a[k].dir # "backup")
            /\ Cardinality({k \in 1..Len(a) : a[k].ok}) <= 1
            /\ (i = Len(saves) /\ primaryOk) => backup_files = saves[i].before[2]

\* C7 witness: the primary write failed and the fallback write stored the segment.
C7_Witness ==
    /\ saves # <<>>
    /\ Last(saves).attempts = <<[dir |-> "network", ok |-> FALSE],
                                [dir |-> "backup", ok |-> TRUE]>>
    /\ Last(saves).ended = "returned"

\* every file of old is in new with the same content
Kept(old, new) == \A p \in DOMAIN old : p \in DOMAIN new /\ new[p] = old[p]

\* C8: for both formats, no step replaces the content of a file that exists.
C8_NoOverwrite ==
    [][Kept(network_files, network_files') /\ Kept(backup_files, backup_files')]_vars

\* C9: once the handler of an interrupt has run: if recording was True, the
\* buffer non-empty and speech detected when the interrupt arrived, the handler
\* called save_recording once, on that buffer, with stream and audio handle
\* still open; if recording was False it made no call and no file changed.
C9_InterruptSavesOnce ==
    HandlerDone =>
        /\ (caught.recording /\ caught.buffer # <<>> /\ caught.detected)
              => /\ InterruptSaves = {Len(saves)}
                 /\ Len(saves) = caught.saves + 1
                 /\ Last(saves).buffer = caught.buffer
                 /\ Last(saves).stream = "open"
                 /\ Last(saves).audio = "open"
        /\ ~caught.recording
              => /\ InterruptSaves = {}
                 /\ Len(saves) = caught.saves
                 /\ files = caught.files

\* C9 witness: the interrupt came in mid-utterance, before the silence
\* threshold, the handler stored the segment and record() returned.
C9_Witness ==
    /\ HandlerDone
    /\ caught.recording /\ caught.buffer # <<>> /\ caught.detected
    /\ caught.counter < silence_threshold
    /\ saves # <<>> /\ Last(saves).attempts # <<>>
    /\ Last(Last(saves).attempts).ok
    /\ outcome = "returned"

\* the five exits of the claim: device not found, stream not opened, exception
\* in the loop, interrupt handled, exception in the handler's save_recording
ListedExit ==
    /\ pc = 0
    /\ audio # "none"
    /\ error.type # "KeyboardInterrupt"

\* C10: on each of these exits the stream, if opened, is stopped and closed
\* and the PyAudio handle is terminated.
C10_HandlesReleased ==
    ListedExit => audio = "terminated" /\ stream \in {"none", "closed"}

\* the lines of an iteration at which a frame's update of the recorder is partly
\* applied; at 100 and 102 no field has been written for the frame read
MidIteration == LoopLines \ {100, 102}

\* C11: the segment the interrupt handler saves is the recorder as an iteration
\* boundary left it: the interrupt was not caught with a frame's update partly
\* applied, nor while a call of save_recording made by the loop was in progress.
C11_InterruptAtBoundary ==
    InterruptSaves # {} => caught.at \notin MidIteration \cup SaveLines

\* C12: a frame on which the classifier raises is processed as a non-speech
\* frame: the step leaves is_speech False, goes to the non-speech branch,
\* raises nothing and changes no field of the recorder, no file and no call of
\* save_recording; the loop goes on.
C12_ErrorIsNonSpeech ==
    [][(pc = 102 /\ vad_raised')
          => /\ is_speech' = FALSE
             /\ pc' = 127
             /\ speech' = Append(speech, FALSE)
             /\ error' = NoError
             /\ UNCHANGED <<recorder, files, saves, outcome, ret>>]_vars

\* C12 witness: the classifier raised on a frame read while recording.
C12_Witness ==
    vad_raised /\ pc = 127 /\ recording /\ error = NoError

\* every write the call attempted failed, the fallback write included
BothFailed(call) ==
    /\ call.attempts # <<>>
    /\ Last(call.attempts).dir = "backup"
    /\ \A k \in 1..Len(call.attempts) : ~call.attempts[k].ok

\* no file under either path has this content
NoFileHolds(data) ==
    /\ \A p \in DOMAIN network_files : network_files[p] # data
    /\ \A p \in DOMAIN backup_files : backup_files[p] # data

ClosedAt(n) ==
    \E i \in 1..Len(saves) :
        saves[i].caller = "loop" /\ Last(saves[i].buffer) = n

\* the iteration of the last frame read has ended
FrameProcessed == pc = 100 /\ nread >= 1

\* C14: after a non-speech frame processed while recording was False,
\* speech_frame_counter is 0 and speech_pre_buffer is empty.
C14_IdleSilenceDiscardsRun ==
    (FrameProcessed /\ ~speech[nread] /\ ~recording /\ ~ClosedAt(nread))
        => speech_frame_counter = 0 /\ speech_pre_buffer = <<>>

\* C14 witness: a speech run shorter than the minimum, then a non-speech frame.
C14_Witness ==
    /\ FrameProcessed /\ ~speech[nread] /\ ~recording /\ ~ClosedAt(nread)
    /\ nread >= 2 /\ speech[nread - 1]

\* C15: right after the loop closes a segment at the silence threshold the
\* recorder is idle: not recording, buffer and pre-buffer empty, both counters 0.
C15_IdleAfterClose ==
    (FrameProcessed /\ ClosedAt(nread))
        => /\ ~recording
           /\ buffer = <<>>
           /\ speech_pre_buffer = <<>>
           /\ speech_frame_counter = 0
           /\ silence_counter = 0

\* C16: after every frame, speech_pre_buffer holds only frames of the current
\* uninterrupted run of speech verdicts: no non-speech frame has been read
\* since any frame in it.
C16_PreBufferIsCurrentRun ==
    FrameProcessed =>
        \A k \in 1..Len(speech_pre_buffer) :
            \A f \in speech_pre_buffer[k]..nread : speech[f]

RECURSIVE SilenceRun(_)
\* number of consecutive non-speech verdicts ending at frame n
SilenceRun(n) ==
    IF n = 0 \/ speech[n] THEN 0 ELSE 1 + SilenceRun(n - 1)

\* C17: while recording, a speech frame leaves silence_counter at 0, a silence
\* run below silence_threshold leaves the segment open with silence_counter
\* counting the run, and the loop calls save_recording in the iteration of the
\* frame that brings the run to silence_threshold, and of no other frame.
C17_ClosedAtThreshold ==
    /\ (FrameProcessed /\ recording)
          => /\ silence_counter = SilenceRun(nread)
             /\ SilenceRun(nread) < silence_threshold
    /\ LoopCallsSave
          => /\ Last(buffer) = nread
             /\ SilenceRun(nread) = silence_threshold
    /\ \A i \in 1..Len(saves) :
          saves[i].caller = "loop"
              => SilenceRun(Last(saves[i].buffer)) = silence_threshold

\* C17 witness: with a threshold of two frames the recording went on after one
\* non-speech frame and the loop calls save_recording on the second.
C17_Witness ==
    /\ LoopCallsSave
    /\ silence_threshold = 2
    /\ SilenceRun(nread) = 2
    /\ recording

\* C18: recording implies speech_detected_in_recording, and the loop reaches
\* line 139 only on return from the save_recording call of line 138 for the
\* frame that closed the segment.
C18_RecordingHasSpeech ==
    /\ recording => speech_detected_in_recording
    /\ pc = 139 => ClosedAt(nread)

\* C18 witness: a segment reached the threshold and save_recording has
\* returned to line 139, recording still True.
C18_Witness ==
    pc = 139 /\ recording /\ speech_detected_in_recording /\ ClosedAt(nread)

\* C19: at every iteration boundary while recording, silence_counter is the
\* number of non-speech frames at the tail of buffer, and every speech frame
\* of a buffer handed to save_recording is among the frames it writes.
C19_TrimKeepsSpeech ==
    /\ (pc = 100 /\ recording) => silence_counter = TrailingSilence(buffer)
    /\ \A i \in Written :
          \A k \in 1..Len(saves[i].buffer) :
              speech[saves[i].buffer[k]]
                  => \E m \in 1..Len(saves[i].data) :
                        saves[i].data[m] = saves[i].buffer[k]

\* the frames of a frame list
FramesOf(s) == {s[k] : k \in 1..Len(s)}

\* C20: two calls of save_recording for segments that started at different
\* frames share no frame, and the later segment holds only frames read
\* after the earlier one was handed over.
C20_SegmentsDisjoint ==
    \A i, j \in 1..Len(saves) :
        (i < j /\ saves[i].onset # saves[j].onset)
            => /\ FramesOf(saves[i].buffer) \cap FramesOf(saves[j].buffer) = {}
               /\ \A f \in FramesOf(saves[j].buffer) : f > Last(saves[i].buffer)

====
